---------------------------- MODULE Spec2Model ----------------------------
(***************************************************************************)
(* Job runners of gbp-embed-automation.                                    *)
(*                                                                         *)
(* One behaviour of the model is one run of one pipeline, chosen by prog:  *)
(*   "scraper"    GBPIframeScraper.scrape            (unnamed/part_000)    *)
(*   "directions" GoogleMapsDirectionsScreenshot     (gbp_location_...js)  *)
(*   "questions"  GoogleMapsDirectionsScreenshot     (sample.js)           *)
(*   "renderer"   GBPIframeRenderer                  (gbp_location_...js)  *)
(*   "search"     GoogleBusinessProfileScraper       (gbp_browser_search_  *)
(*                                                    screenshot.js)       *)
(*   "images"     GoogleBusinessProfileScraper       (unnamed/part_001)    *)
(*   "social"     GoogleBusinessProfileScraper       (..._social_links.js) *)
(*                                                                         *)
(* The browser is the environment: every awaited browser call either       *)
(* resolves or rejects, and the model takes both.  Timed waits             *)
(* (page.waitForTimeout, setTimeout) only pass time and never reject.      *)
(***************************************************************************)
EXTENDS Integers, Sequences, FiniteSets

\* ------------------------------------------------------------------ bounds
\* Longest list of URLs given to GBPIframeScraper.scrape.
MaxUrls == 4
\* Longest list of records read by the sequential drivers.
MaxRecords == 3
\* Largest options.maxRetries handed to a GoogleBusinessProfileScraper.
MaxRetriesCfg == 4
\* Most matching iframes page.evaluate returns for one scraped page.
MaxIframes == 2
\* Most calls of scrape made on one GBPIframeScraper instance.
MaxCalls == 2
\* Most data rows of a CSV file given to readUrlsFromCsv.
MaxRows == 2

\* --------------------------------------------------------- program constants
\* part_000:312  const concurrency = 3
concurrency == 3
\* options.maxRetries || 3 in every constructor
DefaultMaxRetries == 3
\* part_001:652 and social_links:952: the literal passed as retryCount
LiteralRetryCount == 3
\* gbp_browser_search_screenshot.js:621  (i + 1) % 10 === 0
SaveEvery == 10

\* Attempts of searchGoogleBusiness the model follows for one record before
\* it stops looking (the recursion itself has no such limit).
MaxAttempts == MaxRetriesCfg + 3

PageProgs == {"scraper", "directions", "questions", "renderer"}
SearchProgs == {"search", "images", "social"}
\* "reader" is a call of GBPIframeScraper.readUrlsFromCsv on its own.
Progs == PageProgs \cup SearchProgs \cup {"reader"}

VARIABLES
  prog,             \* which pipeline this run is
  maxRetries,       \* this.options.maxRetries
  n,                \* urls.length / records.length after loading
  pc,               \* where the driver is
  i,                \* the driver's loop index
  failing,          \* the driver is unwinding with an exception
  browser,          \* "none", "open", "closed"
  job,              \* job[j]: where the job of input position j is
  pages,            \* input positions whose job-owned page is open
  results,          \* this.results
  errors,           \* this.errors
  questionsResults, \* this.questionsResults (sample.js)
  reported,         \* times the reporting step was entered in this call
  persisted,        \* what the results file holds
  writeFailed,      \* a write of the reporting step has failed in this call
  triggered,        \* scrape has started the screenshot rendering in this call
  calls,            \* calls of the driver made on this instance so far
  carried,          \* results.length when the current call was made
  csvFile,          \* the file readUrlsFromCsv is given
  columnName,       \* the columnName argument of readUrlsFromCsv
  urls,             \* what readUrlsFromCsv resolved with
  args,             \* parameters of the running searchGoogleBusiness frame
  attempts,         \* searchGoogleBusiness attempts made for record i
  env,              \* what the browser does to the attempts for record i
  waited            \* processRecord took its delay after record i

vars == <<prog, maxRetries, n, pc, i, failing, browser, job, pages, results,
          errors, questionsResults, reported, persisted, writeFailed,
          triggered, calls, carried, csvFile, columnName, urls, args, attempts, env, waited>>

\* ------------------------------------------------------------ constructors
\* options.maxRetries as passed to a constructor: not given, or a number.
NotGiven == [given |-> FALSE, value |-> 0]
Given(v) == [given |-> TRUE, value |-> v]

\* The constructors.  GoogleBusinessProfileScraper spreads ...options after
\* the defaults, so a given maxRetries (0 included) wins; the other classes
\* keep options.maxRetries || 3.
ConstructorMaxRetries(p, opt) ==
  IF ~opt.given THEN DefaultMaxRetries
  ELSE IF p \in SearchProgs THEN opt.value
  ELSE IF opt.value = 0 THEN DefaultMaxRetries ELSE opt.value

\* The options.maxRetries values a run is constructed with.  The page-job
\* classes never read this.options.maxRetries, so they are constructed with
\* the default only.
OptionValues(p) ==
  IF p \in SearchProgs
  THEN {NotGiven} \cup {Given(v) : v \in 0 .. MaxRetriesCfg}
  ELSE {NotGiven}

MaxInput(p) == IF p = "scraper" THEN MaxUrls ELSE MaxRecords

\* JavaScript values held by the parameters of searchGoogleBusiness.
Undefined == [kind |-> "undefined", of |-> 0]
Num(x) == [kind |-> "number", of |-> x]
\* records[k], and its Name_Address || Business_Name
Rec(k) == [kind |-> "record", of |-> k]
Term(k) == [kind |-> "term", of |-> k]

\* The browser's behaviour towards the attempts made for one record: the
\* first env.fails attempts meet a failing step (navigation, selector wait),
\* an attempt after those gets through and its handler reports env.success.
\* nameAddress and businessName say whether the record has a non-empty
\* Name_Address and Business_Name; a record with neither never reaches the
\* browser.
Calm == [fails |-> 0, success |-> FALSE, nameAddress |-> TRUE,
         businessName |-> TRUE]
Environments ==
  {e \in [fails : 0 .. MaxRetriesCfg + 1, success : BOOLEAN,
          nameAddress : BOOLEAN, businessName : BOOLEAN] :
     (~e.nameAddress /\ ~e.businessName) => (e.fails = 0 /\ ~e.success)}

\* Smooth: every attempt gets through and its handler reports success.
Smooth == [fails |-> 0, success |-> TRUE, nameAddress |-> TRUE,
           businessName |-> TRUE]

\* Inputs long enough for the intermediate saves of processAllRecords.  Their
\* records are well-formed and the browser is Smooth towards them.
LongInputs == {SaveEvery, 2 * SaveEvery}
Inputs(p) ==
  IF p = "reader" THEN {0}
  ELSE (0 .. MaxInput(p)) \cup (IF p = "search" THEN LongInputs ELSE {})
IsLong == n > MaxInput(prog)
EnvironmentsFor(long) == IF long THEN {Smooth} ELSE Environments

\* The results file: not written yet, or holding the collection last written.
NothingWritten == [written |-> FALSE, content |-> <<>>]
Written(content) == [written |-> TRUE, content |-> content]

ReportVars == <<reported, persisted, writeFailed, triggered>>
CallVars == <<calls, carried>>
ReaderVars == <<csvFile, columnName, urls>>

\* A CSV cell: the text after an optional protocol, and the protocol it
\* starts with ("" for a text starting with neither http:// nor https://).
\* An empty cell has neither.
Cell(protocol, rest) == [protocol |-> protocol, rest |-> rest]
EmptyCell == Cell("", "")
Cells == {EmptyCell, Cell("", "a.com"), Cell("https://", "a.com"),
          Cell("http://", "b.com")}

\* The header lines of the files read: the columns in file order.
Headers == {<<"Address">>, <<"Name">>, <<"Address", "Name">>,
            <<"Name", "Address">>}
RowsOf(header) ==
  UNION {[1 .. k -> [1 .. Len(header) -> Cells]] : k \in 0 .. MaxRows}
CsvFiles ==
  UNION {{[header |-> h, rows |-> r] : r \in RowsOf(h)} : h \in Headers}
NoFile == [header |-> <<>>, rows |-> <<>>]

NoArgs == [nameAddress |-> Undefined, retryCount |-> 0, index |-> Undefined,
           searchTerm |-> Undefined, record |-> Undefined]

Init ==
  /\ prog \in Progs
  /\ maxRetries \in {ConstructorMaxRetries(prog, o) : o \in OptionValues(prog)}
  /\ n \in Inputs(prog)
  /\ pc = "start"
  /\ i = 0
  /\ failing = FALSE
  /\ browser = "none"
  /\ job = [j \in 0 .. n - 1 |-> "idle"]
  /\ pages = {}
  /\ results = <<>>
  /\ errors = <<>>
  /\ questionsResults = <<>>
  /\ reported = 0
  /\ persisted = NothingWritten
  /\ writeFailed = FALSE
  /\ triggered = FALSE
  /\ calls = 1
  /\ carried = 0
  /\ csvFile \in IF prog = "reader" THEN CsvFiles ELSE {NoFile}
  /\ columnName \in IF prog = "reader" THEN {"Address", "Name"} ELSE {"Address"}
  /\ urls = <<>>
  /\ args = NoArgs
  /\ attempts = 0
  /\ env = Calm
  /\ waited = FALSE

\* ----------------------------------------------------------------- outcomes
\* An error message: its text and, for a failed search, the attempt that
\* threw it.
NoError == [msg |-> "", attempt |-> 0]
ErrorMsg(msg, attempt) == [msg |-> msg, attempt |-> attempt]

\* One entry of a results collection.  artifact is the outcome's
\* iframe_src / screenshot_path ("" when empty), error its message, entity
\* the collection it was pushed to.
Outcome(j, status, artifact, error, entity) ==
  [job |-> j, status |-> status, artifact |-> artifact, error |-> error,
   entity |-> entity]

\* The message of the exception a page job caught.
JobError == ErrorMsg("step failed", 0)

\* catch block of a page job: the outcome pushed to this.results.
ErrorOutcomeKeepsPath(j) == Outcome(j, "error", "path", JobError, "results")
ErrorOutcome(j) == Outcome(j, "error", "", JobError, "results")

\* success push of captureDirectionsScreenshot (screenshot_path is the
\* path.join of the screenshot directory and a non-empty file name).
SuccessOutcome(j) == Outcome(j, "success", "path", NoError, "results")

\* this.errors entry
ErrorEntry(j) == [job |-> j, error |-> JobError]

\* catch block of a page job: what it pushes to this.errors.
CatchErrorsNone(j) == <<>>
CatchErrors(j) == <<ErrorEntry(j)>>

\* scrapeUrl: one push per matching iframe, the no_iframe_found push.
IframeOutcomeWithoutSrc(j) == Outcome(j, "success", "", NoError, "results")
IframeOutcome(j) == Outcome(j, "success", "src", NoError, "results")
NoIframeOutcome(j) == Outcome(j, "no_iframe_found", "", NoError, "results")

RECURSIVE Repeat(_, _)
Repeat(x, k) == IF k = 0 THEN <<>> ELSE <<x>> \o Repeat(x, k - 1)

\* ------------------------------------------------------ page-job drivers
\* urls.slice(i, i + concurrency), as input positions
BatchFromEnd(from) ==
  {j \in 0 .. n - 1 : n - from - concurrency <= j /\ j < n - from}
WideBatch(from) == {j \in 0 .. n - 1 : from <= j /\ j < from + concurrency + 1}
Batch(from) == {j \in 0 .. n - 1 : from <= j /\ j < from + concurrency}

\* The jobs the driver has started and is awaiting.
Awaited == IF prog = "scraper" THEN Batch(i) ELSE {i}

Step == IF prog = "scraper" THEN concurrency ELSE 1

InFlight == {j \in DOMAIN job : job[j] \in {"newPage", "questions", "body", "closing"}}

JobVars == <<job, pages, results, errors, questionsResults>>
SearchVars == <<args, attempts, env, waited>>
Config == <<prog, maxRetries, n>>

\* if (urls.length === 0) / if (records.length === 0)
InputEmptyIgnored == FALSE
InputEmpty == n = 0

\* The input yields no record: scrape and processDirectionsScreenshots
\* throw, renderAll returns; no browser is launched.
LoadEmpty ==
  /\ prog \in PageProgs
  /\ pc = "start"
  /\ InputEmpty
  /\ pc' = IF prog = "renderer" THEN "returned" ELSE "threw"
  /\ UNCHANGED <<Config, CallVars, ReaderVars, i, failing, browser, ReportVars, JobVars, SearchVars>>

\* Records loaded, puppeteer.launch.
Launch ==
  /\ prog \in PageProgs
  /\ pc = "start"
  /\ ~InputEmpty
  /\ browser' = "open"
  /\ pc' = "loop"
  /\ UNCHANGED <<Config, CallVars, ReaderVars, i, failing, ReportVars, JobVars, SearchVars>>

\* Loop head with work left: call the job function(s); each call runs to
\* its first await, browser.newPage().
Dispatch ==
  /\ prog \in PageProgs
  /\ pc = "loop"
  /\ i < n
  /\ job' = [j \in DOMAIN job |-> IF j \in Awaited THEN "newPage" ELSE job[j]]
  /\ pc' = "await"
  /\ UNCHANGED <<Config, CallVars, ReaderVars, i, failing, browser, ReportVars, pages, results, errors,
                 questionsResults, SearchVars>>

\* await resolves: every awaited job's promise is fulfilled.
JoinOk ==
  /\ prog \in PageProgs
  /\ pc = "await"
  /\ \A j \in Awaited : job[j] = "done"
  /\ i' = i + Step
  /\ pc' = "loop"
  /\ UNCHANGED <<Config, CallVars, ReaderVars, failing, browser, ReportVars, JobVars, SearchVars>>

\* await rejects as soon as one awaited promise is rejected (Promise.all
\* does not wait for the others); control leaves the loop for finally.
JoinReject ==
  /\ prog \in PageProgs
  /\ pc = "await"
  /\ \E j \in Awaited : job[j] = "rejected"
  /\ failing' = TRUE
  /\ pc' = "finally"
  /\ UNCHANGED <<Config, CallVars, ReaderVars, i, browser, ReportVars, JobVars, SearchVars>>

\* The filter predicates of generateReport (results.filter(...).length is
\* the length of the selected subsequence).  gbp_location_screenshot.js
\* reads r.success, a property no pushed outcome has, so the read gives
\* undefined; sample.js compares r.screenshot_status.
ReadsSuccess(o) == IF "success" \in DOMAIN o THEN o.success ELSE FALSE
NotReadsSuccess(o) == ~ReadsSuccess(o)
StatusIsSuccess(o) == o.status = "success"
StatusIsError(o) == o.status = "error"

\* summary of generateReport(results, outputPath)
GenerateReport(p, rs) ==
  IF p = "directions"
  THEN [totalProcessed |-> Len(rs),
        successful |-> Len(SelectSeq(rs, ReadsSuccess)),
        failed |-> Len(SelectSeq(rs, NotReadsSuccess))]
  ELSE [totalProcessed |-> Len(rs),
        successful |-> Len(SelectSeq(rs, StatusIsSuccess)),
        failed |-> Len(SelectSeq(rs, StatusIsError))]

\* What a successful write leaves in the file: the collection, and for
\* generateReport the summary with it.
FileAppends(p, rs) == [written |-> TRUE, content |-> persisted.content \o rs]
FileOf(p, rs) ==
  IF p \in {"directions", "questions"}
  THEN [written |-> TRUE, content |-> rs, summary |-> GenerateReport(p, rs)]
  ELSE Written(rs)

\* saveResultsToCsv: this.onlyGBPSuccessRecords =
\*   this.results.filter((result) => result.iframe_src.length > 0)
HasIframeSrc(o) == o.artifact # ""
OnlyGBPSuccessRecords(rs) == SelectSeq(rs, HasIframeSrc)

\* scrape, after saveResultsToCsv has returned:
\* if (this.onlyGBPSuccessRecords.length > 0) start the screenshot rendering
\* (its own failure is caught and logged).
RenderTrigger(p, rs) == p = "scraper" /\ Len(OnlyGBPSuccessRecords(rs)) > 0

\* One execution of the reporting step's write of this.results: the file
\* holds the collection afterwards, or the write fails and the file is as
\* it was.
WriteResults(ok) ==
  /\ reported' = reported + 1
  /\ persisted' = IF ok THEN FileOf(prog, results) ELSE persisted
  /\ writeFailed' = (writeFailed \/ ~ok)
  /\ triggered' = (ok /\ RenderTrigger(prog, results))

\* Loop done: the reporting step.  generateReport is called without await,
\* so its failure is not seen by processDirectionsScreenshots.
ReportOk ==
  /\ prog \in PageProgs
  /\ pc = "loop"
  /\ i >= n
  /\ WriteResults(TRUE)
  /\ pc' = "finally"
  /\ UNCHANGED <<Config, CallVars, ReaderVars, i, failing, browser, JobVars, SearchVars>>

\* await saveResultsToCsv / await saveResults rejects.
ReportFail ==
  /\ prog \in {"scraper", "renderer"}
  /\ pc = "loop"
  /\ i >= n
  /\ WriteResults(FALSE)
  /\ failing' = TRUE
  /\ pc' = "finally"
  /\ UNCHANGED <<Config, CallVars, ReaderVars, i, browser, JobVars, SearchVars>>

\* generateReport rejects (fs.writeFileSync throws inside the async
\* function): the promise is not awaited, processDirectionsScreenshots goes
\* on to its summary and returns.
ReportFailUnseen ==
  /\ prog \in {"directions", "questions"}
  /\ pc = "loop"
  /\ i >= n
  /\ WriteResults(FALSE)
  /\ pc' = "finally"
  /\ UNCHANGED <<Config, CallVars, ReaderVars, i, failing, browser, JobVars, SearchVars>>

\* finally { await browser.close() }: the browser and every page in it go.
CloseBrowser ==
  /\ prog \in PageProgs
  /\ pc = "finally"
  /\ browser' = "closed"
  /\ pages' = {}
  /\ pc' = IF failing THEN "threw" ELSE "returned"
  /\ UNCHANGED <<Config, CallVars, ReaderVars, i, failing, ReportVars, job, results, errors,
                 questionsResults, SearchVars>>

\* scrape is called again on the same instance once the earlier call is
\* over, as test-scraper.js does with a single URL both times.  The
\* constructor alone sets this.results and this.errors; scrape starts from
\* whatever they hold.
ScrapeAgain ==
  /\ prog = "scraper"
  /\ pc \in {"returned", "threw"}
  /\ n = 1
  /\ calls < MaxCalls
  /\ calls' = calls + 1
  /\ carried' = Len(results)
  /\ pc' = "start"
  /\ i' = 0
  /\ failing' = FALSE
  /\ browser' = "none"
  /\ job' = [j \in DOMAIN job |-> "idle"]
  /\ reported' = 0
  /\ writeFailed' = FALSE
  /\ triggered' = FALSE
  /\ UNCHANGED <<Config, ReaderVars, persisted, pages, results, errors,
                 questionsResults, SearchVars>>

\* ---------------------------------------------------------------- page jobs
DriverVars == <<pc, i, failing, browser, ReportVars>>

\* Where a job goes once its page is open.
AfterNewPage == IF prog = "questions" THEN "questions" ELSE "body"

\* const page = await browser.newPage() resolves.
NewPageOk(j) ==
  /\ job[j] = "newPage"
  /\ browser = "open"
  /\ job' = [job EXCEPT ![j] = AfterNewPage]
  /\ pages' = pages \cup {j}
  /\ UNCHANGED <<Config, CallVars, ReaderVars, DriverVars, results, errors, questionsResults, SearchVars>>

\* browser.newPage() rejects: it stands before the try, so the job's
\* promise is rejected and nothing is recorded.
NewPageFail(j) ==
  /\ job[j] = "newPage"
  /\ job' = [job EXCEPT ![j] = "rejected"]
  /\ UNCHANGED <<Config, CallVars, ReaderVars, DriverVars, pages, results, errors, questionsResults,
                 SearchVars>>

\* Where a job goes after its try/catch: finally { await page.close() }.
AfterBodySkipsClose(caught) == IF caught THEN "done" ELSE "closing"
AfterBody(caught) == "closing"

\* scrapeUrl, uniqueSources.length > 0: one push per element of
\* matchingIframes (the iframes whose src attribute starts with the https
\* embed prefixes), k of them.
ScrapeFound(j, k) ==
  /\ prog = "scraper"
  /\ job[j] = "body"
  /\ browser = "open"
  /\ results' = results \o Repeat(IframeOutcome(j), k)
  /\ job' = [job EXCEPT ![j] = AfterBody(FALSE)]
  /\ UNCHANGED <<Config, CallVars, ReaderVars, DriverVars, pages, errors, questionsResults, SearchVars>>

\* scrapeUrl, uniqueSources.length = 0.
ScrapeNone(j) ==
  /\ prog = "scraper"
  /\ job[j] = "body"
  /\ browser = "open"
  /\ results' = Append(results, NoIframeOutcome(j))
  /\ job' = [job EXCEPT ![j] = AfterBody(FALSE)]
  /\ UNCHANGED <<Config, CallVars, ReaderVars, DriverVars, pages, errors, questionsResults, SearchVars>>

\* captureDirectionsScreenshot: every step through page.screenshot resolved.
CaptureOk(j) ==
  /\ prog \in {"directions", "questions"}
  /\ job[j] = "body"
  /\ browser = "open"
  /\ results' = Append(results, SuccessOutcome(j))
  /\ job' = [job EXCEPT ![j] = AfterBody(FALSE)]
  /\ UNCHANGED <<Config, CallVars, ReaderVars, DriverVars, pages, errors, questionsResults, SearchVars>>

\* A step inside the try throws (a browser step, or the job's own throw on
\* a missing iframe or a failed scroll); the catch block records it.
JobCatch(j) ==
  /\ prog \in PageProgs
  /\ job[j] \in {"questions", "body"}
  /\ results' = Append(results, ErrorOutcome(j))
  /\ errors' = errors \o CatchErrors(j)
  /\ job' = [job EXCEPT ![j] = AfterBody(TRUE)]
  /\ UNCHANGED <<Config, CallVars, ReaderVars, DriverVars, pages, questionsResults, SearchVars>>

\* this.page of a GBPIframeRenderer: no statement of the class assigns it.
ThisPage == Undefined

\* The TypeError of reading evaluate on undefined.
PageTypeError == ErrorMsg("this.page is undefined", 0)

\* processGBPRecord: navigation, findMatchingIframe, scrollToIframe and the
\* waits have all resolved and captureIframeScreenshot is called.  Its first
\* statement is await this.page.evaluate(...): with this.page undefined it
\* throws before page.screenshot is reached and the catch block of
\* processGBPRecord records the error; otherwise the screenshot path comes
\* back and the success outcome is pushed.
RenderCapture(j) ==
  /\ prog = "renderer"
  /\ job[j] = "body"
  /\ browser = "open"
  /\ IF ThisPage.kind = "undefined"
     THEN /\ results' = Append(results, [ErrorOutcome(j) EXCEPT !.error = PageTypeError])
          /\ errors' = Append(errors, [ErrorEntry(j) EXCEPT !.error = PageTypeError])
          /\ job' = [job EXCEPT ![j] = AfterBody(TRUE)]
     ELSE /\ results' = Append(results, SuccessOutcome(j))
          /\ errors' = errors
          /\ job' = [job EXCEPT ![j] = AfterBody(FALSE)]
  /\ UNCHANGED <<Config, CallVars, ReaderVars, DriverVars, pages, questionsResults, SearchVars>>

\* captureQuestionsScreenshot (sample.js), called from the try of
\* captureDirectionsScreenshot; it never throws.
\*   "skip"     button not found: returns without a push
\*   "error"    a step before the screenshot throws: error push
\*   "captured" screenshot taken, success push, main view restored
\*   "lost"     screenshot taken, success push, goBack and the reload both
\*              fail: the outer catch pushes an error outcome as well
QuestionsPushes(j, way) ==
  CASE way = "skip" -> <<>>
    [] way = "error" -> <<Outcome(j, "error", "", JobError, "questions")>>
    [] way = "captured" -> <<Outcome(j, "success", "path", NoError, "questions")>>
    [] way = "lost" -> <<Outcome(j, "success", "path", NoError, "questions"),
                         Outcome(j, "error", "", JobError, "questions")>>

CaptureQuestions(j, way) ==
  /\ prog = "questions"
  /\ job[j] = "questions"
  /\ browser = "open"
  /\ questionsResults' = questionsResults \o QuestionsPushes(j, way)
  /\ job' = [job EXCEPT ![j] = "body"]
  /\ UNCHANGED <<Config, CallVars, ReaderVars, DriverVars, pages, results, errors, SearchVars>>

\* finally { await page.close() } resolves.
ClosePageOk(j) ==
  /\ job[j] = "closing"
  /\ browser = "open"
  /\ pages' = pages \ {j}
  /\ job' = [job EXCEPT ![j] = "done"]
  /\ UNCHANGED <<Config, CallVars, ReaderVars, DriverVars, results, errors, questionsResults, SearchVars>>

\* page.close() rejects, which it does when the page's target or the
\* connection is already gone: the page is not open afterwards, and the
\* rejection leaves the finally block and rejects the job's promise.
ClosePageFail(j) ==
  /\ job[j] = "closing"
  /\ pages' = pages \ {j}
  /\ job' = [job EXCEPT ![j] = "rejected"]
  /\ UNCHANGED <<Config, CallVars, ReaderVars, DriverVars, results, errors, questionsResults, SearchVars>>

PageJob ==
  \E j \in DOMAIN job :
    \/ NewPageOk(j)
    \/ NewPageFail(j)
    \/ \E k \in 0 .. MaxIframes : ScrapeFound(j, k)
    \/ ScrapeNone(j)
    \/ CaptureOk(j)
    \/ JobCatch(j)
    \/ RenderCapture(j)
    \/ \E way \in {"skip", "error", "captured", "lost"} : CaptureQuestions(j, way)
    \/ ClosePageOk(j)
    \/ ClosePageFail(j)

\* ------------------------------------------- GoogleBusinessProfileScraper
\* main / InitializeGBPBrowserSearchScreenshot: await scraper.initialize()
\* launches the browser and opens the one page every record shares.
Initialize ==
  /\ prog \in SearchProgs
  /\ pc = "start"
  /\ browser' = "open"
  /\ pc' = "load"
  /\ UNCHANGED <<Config, CallVars, ReaderVars, i, failing, ReportVars, JobVars, SearchVars>>

\* processAllRecords: readCsvFile gave no record: log and return.
LoadNoRecords ==
  /\ prog \in SearchProgs
  /\ pc = "load"
  /\ InputEmpty
  /\ pc' = "returned"
  /\ UNCHANGED <<Config, CallVars, ReaderVars, i, failing, browser, ReportVars, JobVars, SearchVars>>

LoadRecords ==
  /\ prog \in SearchProgs
  /\ pc = "load"
  /\ ~InputEmpty
  /\ pc' = "loop"
  /\ UNCHANGED <<Config, CallVars, ReaderVars, i, failing, browser, ReportVars, JobVars, SearchVars>>

\* The arguments processRecord(record, index) calls searchGoogleBusiness with.
\* gbp_browser_search_screenshot.js passes the search term only; the two
\* other variants pass the literal 3 as retryCount.
FirstCall(p, index) ==
  IF p = "search"
  THEN [nameAddress |-> Term(index), retryCount |-> 0, index |-> Undefined,
        searchTerm |-> Undefined, record |-> Undefined]
  ELSE [nameAddress |-> Term(index), retryCount |-> LiteralRetryCount,
        index |-> Num(index), searchTerm |-> Term(index), record |-> Rec(index)]

\* The arguments of the recursive call in the catch block.
\* gbp_browser_search_screenshot.js:217 passes (nameAddress, retryCount + 1);
\* part_001:246 and social_links:259 pass (nameAddress, 3, retryCount + 1,
\* index), which land on retryCount, index and searchTerm.
RetryCall(p, a) ==
  IF p = "search"
  THEN [a EXCEPT !.retryCount = a.retryCount + 1]
  ELSE [nameAddress |-> a.nameAddress, retryCount |-> LiteralRetryCount,
        index |-> Num(a.retryCount + 1), searchTerm |-> a.index,
        record |-> Undefined]

\* if (retryCount < this.options.maxRetries)
RetriesOneLess(retryCount) == retryCount + 1 < maxRetries
RetryComparisonFlipped(retryCount) == retryCount > maxRetries
ShouldRetry(retryCount) == retryCount < maxRetries

\* status: result.success ? "success" : "failed"
StatusOf(success) == IF success THEN "success" ELSE "failed"

\* processedResult of processRecord / createProcessedObject
ProcessedResult(index, success, entity) ==
  Outcome(index, StatusOf(success), IF success THEN "path" ELSE "", NoError, entity)

\* errorResult of processRecord's catch block
ErrorResult(index, error) == Outcome(index, "error", "", error, "results")

\* What the catch block of processRecord does with errorResult:
\* gbp_browser_search_screenshot.js pushes it, the other two only return it.
CatchPushes(p, index, error) ==
  IF p = "search" THEN <<ErrorResult(index, error)>> ELSE <<>>

\* const searchTerm = record.Name_Address || record.Business_Name;
\* if (!searchTerm) throw
SearchTermAssumed(rec) == TRUE
HasSearchTerm(rec) == rec.nameAddress \/ rec.businessName

\* processRecord on a record with neither Name_Address nor Business_Name:
\* the throw in the try, then the catch block.
ProcessRecordNoTerm ==
  /\ prog \in SearchProgs
  /\ pc = "loop"
  /\ i < n
  /\ \E e \in EnvironmentsFor(IsLong) : ~HasSearchTerm(e) /\ env' = e
  /\ results' = results \o CatchPushes(prog, i, ErrorMsg("no search term", 0))
  /\ args' = NoArgs
  /\ attempts' = 0
  /\ waited' = FALSE
  /\ pc' = "recordDone"
  /\ UNCHANGED <<Config, CallVars, ReaderVars, i, failing, browser, ReportVars, job, pages, errors,
                 questionsResults>>

\* processRecord on a record with a search term: call searchGoogleBusiness.
ProcessRecordSearch ==
  /\ prog \in SearchProgs
  /\ pc = "loop"
  /\ i < n
  /\ args' = FirstCall(prog, i)
  /\ attempts' = 0
  /\ waited' = FALSE
  /\ \E e \in EnvironmentsFor(IsLong) : HasSearchTerm(e) /\ env' = e
  /\ pc' = "search"
  /\ UNCHANGED <<Config, CallVars, ReaderVars, i, failing, browser, ReportVars, JobVars>>

\* What an attempt that reaches the end of its try pushes.  The handlers
\* (handleSeePhotos, handleReviewsScreenshot, handleCaptureLinks) catch
\* their own errors and return {success}.  gbp_browser_search_screenshot.js
\* returns the result and processRecord pushes it under index; part_001
\* pushes a gbp-images and a gbp-reviews object, social_links a
\* gbp-social-links object, built by createProcessedObject from the frame's
\* index parameter.
AttemptPushes(p, index, a, s1, s2) ==
  CASE p = "search" -> <<ProcessedResult(index, s1, "results")>>
    [] p = "images" -> <<ProcessedResult(a.index.of, s1, "gbp-images"),
                         ProcessedResult(a.index.of, s2, "gbp-reviews")>>
    [] p = "social" -> <<ProcessedResult(a.index.of, s1, "gbp-social-links")>>

\* An attempt can reach the end of its try only if record is an object:
\* part_001:216 reads record.City and social_links:275 record.Business_Name,
\* a TypeError when record is undefined.
CanReturn(p, a) == p = "search" \/ a.record.kind = "record"

\* The attempt now running throws: a step fails, or record is undefined.
Throws == attempts < env.fails \/ ~CanReturn(prog, args)

\* Object.keys(this.results).length: part_001 keeps gbp-images and
\* gbp-reviews, the social-links file gbp-social-links as well.
ResultKeys(p) == IF p = "images" THEN 2 ELSE 3

\* The condition of the delay in processRecord's try, evaluated after the
\* pushes: index < this.results.length - 1 in
\* gbp_browser_search_screenshot.js, where this.results is the array of
\* outcomes; index < Object.keys(this.results).length - 1 in the two other
\* files.
DelayDue(p, index, rs) ==
  IF p = "search" THEN index < Len(rs) - 1 ELSE index < ResultKeys(p) - 1

\* One attempt of searchGoogleBusiness runs to the end of its try; control
\* returns to processRecord, which finishes the record.
SearchReturns ==
  /\ prog \in SearchProgs
  /\ pc = "search"
  /\ ~Throws
  /\ \E s2 \in IF prog = "images" THEN BOOLEAN ELSE {FALSE} :
       results' = results \o AttemptPushes(prog, i, args, env.success, s2)
  /\ waited' = DelayDue(prog, i, results')
  /\ attempts' = attempts + 1
  /\ pc' = "recordDone"
  /\ UNCHANGED <<Config, CallVars, ReaderVars, i, failing, browser, ReportVars, job, pages, errors,
                 questionsResults, args, env>>

\* One attempt throws (navigation, a selector wait, or the TypeError on an
\* undefined record) and the catch block calls searchGoogleBusiness again.
SearchRetry ==
  /\ prog \in SearchProgs
  /\ pc = "search"
  /\ Throws
  /\ attempts + 1 < MaxAttempts
  /\ ShouldRetry(args.retryCount)
  /\ attempts' = attempts + 1
  /\ args' = RetryCall(prog, args)
  /\ UNCHANGED <<Config, CallVars, ReaderVars, pc, i, failing, browser, ReportVars, JobVars, env,
                 waited>>

\* One attempt throws and the catch block rethrows: the error unwinds through
\* the catch blocks of the calling frames unchanged and reaches the catch of
\* processRecord.
SearchExhausted ==
  /\ prog \in SearchProgs
  /\ pc = "search"
  /\ Throws
  /\ ~ShouldRetry(args.retryCount)
  /\ attempts' = attempts + 1
  /\ results' = results \o CatchPushes(prog, i, ErrorMsg("search failed", attempts + 1))
  /\ pc' = "recordDone"
  /\ UNCHANGED <<Config, CallVars, ReaderVars, i, failing, browser, ReportVars, job, pages, errors,
                 questionsResults, args, env, waited>>

\* if ((i + 1) % 10 === 0), in gbp_browser_search_screenshot.js only
IntermediateSaveNever(p, index) == FALSE
IntermediateSaveDue(p, index) == p = "search" /\ (index + 1) % SaveEvery = 0

\* Back in processAllRecords after await processRecord.
\* gbp_browser_search_screenshot.js saves every tenth record.
NextRecord ==
  /\ prog \in SearchProgs
  /\ pc = "recordDone"
  /\ IF IntermediateSaveDue(prog, i)
     THEN \E ok \in BOOLEAN : WriteResults(ok)
     ELSE UNCHANGED ReportVars
  /\ i' = i + 1
  /\ pc' = "loop"
  /\ UNCHANGED <<Config, CallVars, ReaderVars, failing, browser, JobVars, SearchVars>>

\* Loop done: await this.saveResults(), which catches its own write errors
\* and returns normally either way.
FinalSave ==
  /\ prog \in SearchProgs
  /\ pc = "loop"
  /\ i >= n
  /\ \E ok \in BOOLEAN : WriteResults(ok)
  /\ pc' = "returned"
  /\ UNCHANGED <<Config, CallVars, ReaderVars, i, failing, browser, JobVars, SearchVars>>

\* finally of main / InitializeGBPBrowserSearchScreenshot: scraper.cleanup(),
\* commented out in social_links:1115.
Cleanup ==
  /\ prog \in SearchProgs
  /\ pc = "returned"
  /\ browser' = IF prog = "social" THEN browser ELSE "closed"
  /\ pc' = "exited"
  /\ UNCHANGED <<Config, CallVars, ReaderVars, i, failing, ReportVars, JobVars, SearchVars>>

\* ------------------------------------------ GBPIframeScraper.readUrlsFromCsv
\* row[Object.keys(row)[0]]: csv-parser builds each row object with its keys
\* in header order, so this is the cell of the first column, whatever
\* columnName is.
RowValue(header, row, name) == row[1]

\* if (!cleanUrl.startsWith("http://") && !cleanUrl.startsWith("https://"))
\*   cleanUrl = "https://" + cleanUrl
EnsureProtocol(cell) ==
  IF cell.protocol \in {"http://", "https://"}
  THEN cell
  ELSE Cell("https://", cell.rest)

\* the "data" handler over the rows read so far: rows whose value is empty
\* are skipped
RECURSIVE ReadRows(_, _, _)
ReadRows(header, rows, name) ==
  IF rows = <<>> THEN <<>>
  ELSE LET url == RowValue(header, Head(rows), name)
           rest == ReadRows(header, Tail(rows), name)
       IN IF url # EmptyCell THEN <<EnsureProtocol(url)>> \o rest ELSE rest

\* readUrlsFromCsv(csvFilePath, columnName) on an existing file: the promise
\* resolves with urls at the stream's "end".
ReadUrlsFromCsv ==
  /\ prog = "reader"
  /\ pc = "start"
  /\ urls' = ReadRows(csvFile.header, csvFile.rows, columnName)
  /\ pc' = "loaded"
  /\ UNCHANGED <<Config, CallVars, csvFile, columnName, i, failing, browser,
                 ReportVars, JobVars, SearchVars>>

Next ==
  \/ LoadEmpty
  \/ Launch
  \/ Dispatch
  \/ JoinOk
  \/ JoinReject
  \/ ReportOk
  \/ ReportFail
  \/ ReportFailUnseen
  \/ CloseBrowser
  \/ ScrapeAgain
  \/ ReadUrlsFromCsv
  \/ PageJob
  \/ Initialize
  \/ LoadNoRecords
  \/ LoadRecords
  \/ ProcessRecordNoTerm
  \/ ProcessRecordSearch
  \/ SearchReturns
  \/ SearchRetry
  \/ SearchExhausted
  \/ NextRecord
  \/ FinalSave
  \/ Cleanup

Spec == Init /\ [][Next]_vars

\* ------------------------------------------------------------------ claims
\* The entries of a collection, and how many of them belong to the job of
\* input position j.
Entries(seq) == {seq[k] : k \in 1 .. Len(seq)}
OutcomesOf(seq, j) == Cardinality({k \in 1 .. Len(seq) : seq[k].job = j})

Finished == pc \in {"returned", "threw", "exited"}

\* C1: during GBPIframeScraper.scrape at most 3 scrapeUrl executions are
\* started and not yet finished, at any moment and for every list of URLs.
C1_AtMostThreeInFlight ==
  prog = "scraper" => Cardinality(InFlight) <= 3

\* C1 witness: a list longer than one batch, the first batch done, and the
\* second batch in flight next to nothing else.
C1_Witness ==
  /\ prog = "scraper"
  /\ n > concurrency
  /\ i = concurrency
  /\ InFlight # {}
  /\ \A j \in Batch(0) : job[j] = "done"

\* C2 (as claimed): once scrape has completed, this.results holds exactly
\* one outcome for every input URL.
C2_OneOutcomePerUrl ==
  (prog = "scraper" /\ pc = "returned") =>
    \A j \in 0 .. n - 1 : OutcomesOf(results, j) = 1

\* C3 (as claimed): an exception of one scrapeUrl execution stays in that
\* job: no job's promise is rejected, and when the browser is closed every
\* URL has been dispatched and its job has run to completion.
C3_FailureContained ==
  prog = "scraper" =>
    /\ \A j \in 0 .. n - 1 : job[j] # "rejected"
    /\ browser = "closed" => \A j \in 0 .. n - 1 : job[j] = "done"

\* C4 (as claimed): processRecord of the images+reviews and the social-links
\* variant makes at most maxRetries + 1 attempts of searchGoogleBusiness for
\* one record.
C4_AttemptsBounded ==
  prog \in {"images", "social"} => attempts <= maxRetries + 1

\* C5: in gbp_browser_search_screenshot.js a record whose attempts all fail
\* is attempted exactly maxRetries + 1 times, the last of them with
\* retryCount = maxRetries, and yields exactly one outcome: status error,
\* carrying the message of the last attempt's error.
C5_ExhaustedRetries ==
  (prog = "search" /\ pc = "recordDone" /\ attempts >= 1 /\ env.fails >= attempts) =>
    /\ attempts = maxRetries + 1
    /\ args.retryCount = maxRetries
    /\ OutcomesOf(results, i) = 1
    /\ results[Len(results)] = ErrorResult(i, ErrorMsg("search failed", attempts))

\* C5 witness: a record given up after at least one retry.
C5_Witness ==
  /\ prog = "search"
  /\ pc = "recordDone"
  /\ attempts = maxRetries + 1
  /\ attempts >= 2
  /\ env.fails >= attempts
  /\ results[Len(results)].status = "error"

\* C6: in gbp_browser_search_screenshot.js a record whose search fails
\* exactly R times, R < maxRetries, and then succeeds is finished after
\* R + 1 attempts with exactly one outcome, of status success.
C6_TransientThenSuccess ==
  (prog = "search" /\ pc = "recordDone" /\ attempts >= 1
     /\ env.fails < maxRetries /\ env.success) =>
    /\ attempts = env.fails + 1
    /\ OutcomesOf(results, i) = 1
    /\ results[Len(results)].job = i
    /\ results[Len(results)].status = "success"

\* C6 witness: a record that succeeded on a retry.
C6_Witness ==
  /\ prog = "search"
  /\ pc = "recordDone"
  /\ env.fails >= 1
  /\ env.fails < maxRetries
  /\ env.success
  /\ attempts = env.fails + 1
  /\ results[Len(results)].status = "success"

\* C7 (as claimed): in the images+reviews and the social-links variant every
\* input record has a recorded outcome once processAllRecords is over, a
\* record whose execution threw having one of status error.
C7_ErrorOutcomeRecorded ==
  (prog \in {"images", "social"} /\ pc \in {"returned", "exited"}) =>
    \A k \in 0 .. n - 1 : OutcomesOf(results, k) >= 1

\* C8 (as claimed): in processAllRecords, processDirectionsScreenshots and
\* renderAll a run over a non-empty input ends only after every record was
\* dispatched and the reporting step was entered.
C8_BatchNeverAborted ==
  (prog \in {"search", "directions", "renderer"} /\ n > 0 /\ Finished) =>
    /\ reported >= 1
    /\ prog = "search" => i = n
    /\ prog # "search" => \A k \in 0 .. n - 1 : job[k] # "idle"

\* C9: a page opened by a job is closed when the job ends, whichever way it
\* ends, and no job-owned page is open once the driver has finished.
C9_PagesClosed ==
  prog \in PageProgs =>
    /\ \A j \in 0 .. n - 1 : job[j] \in {"done", "rejected"} => j \notin pages
    /\ Finished => pages = {}

\* C9 witness: a driver that returned after a job went through its catch
\* block and another through its success path, both pages closed.
C9_Witness ==
  /\ prog \in {"scraper", "directions"}
  /\ pc = "returned"
  /\ pages = {}
  /\ \E j, k \in 0 .. n - 1 :
       /\ job[j] = "done"
       /\ job[k] = "done"
       /\ \E o \in Entries(results) : o.job = j /\ o.status = "error"
       /\ \E o \in Entries(results) : o.job = k /\ o.status = "success"

\* C10: in GoogleMapsDirectionsScreenshot (results and questionsResults)
\* and GBPIframeRenderer every outcome of status error has an empty
\* screenshot_path and every outcome of status success a non-empty one.
C10_ArtifactOnlyOnSuccess ==
  prog \in {"directions", "questions", "renderer"} =>
    \A o \in Entries(results) \cup Entries(questionsResults) :
      /\ o.status = "error" => o.artifact = ""
      /\ o.status = "success" => o.artifact # ""

\* C10 witness: results holding an error outcome next to a success outcome,
\* and questionsResults holding both kinds as well.
C10_Witness ==
  /\ prog = "questions"
  /\ \E o \in Entries(results) : o.status = "error" /\ o.artifact = ""
  /\ \E o \in Entries(results) : o.status = "success" /\ o.artifact = "path"
  /\ \E o \in Entries(questionsResults) : o.status = "error"
  /\ \E o \in Entries(questionsResults) : o.status = "success"


\* C11: when the input yields zero records, every driver aborts before it
\* dispatches a job: no job is started, no page is opened, no search attempt
\* is made, nothing is appended to a collection and the driver does not go
\* on to its reporting step.
C11_EmptyInputDispatchesNothing ==
  n = 0 =>
    /\ pages = {}
    /\ results = <<>>
    /\ errors = <<>>
    /\ questionsResults = <<>>
    /\ attempts = 0
    /\ reported = 0
    /\ prog \in PageProgs => browser = "none"

\* C11 witness: a driver that is over after an input without records.
C11_Witness ==
  /\ n = 0
  /\ Finished
  /\ results = <<>>

\* C12 (as claimed): when the input yields zero records, every driver ends
\* by throwing to its caller.
C12_EmptyInputThrows ==
  (prog \in PageProgs \cup SearchProgs /\ n = 0 /\ Finished) => pc = "threw"

C14_OneQuestionsOutcome ==
  prog = "questions" =>
    \A j \in 0 .. n - 1 :
      job[j] = "body" => OutcomesOf(questionsResults, j) = 1

\* C15 (as claimed): what a call of scrape writes and returns holds
\* outcomes of that call's URLs only: when scrape is called, this.results
\* holds no outcome of an earlier call.
C15_ResultsOfThisCallOnly ==
  prog = "scraper" => carried = 0

\* The outcomes of error status in a collection, in order.
IsErrorOutcome(o) == o.status = "error"
ErrorOutcomes(seq) == SelectSeq(seq, IsErrorOutcome)

\* C16: in GBPIframeScraper, GoogleMapsDirectionsScreenshot and
\* GBPIframeRenderer, between any two job steps this.errors is the
\* error-only subset of this.results: it holds one entry for each outcome
\* of error status, of the same job and with the same message, and no other
\* entry.
C16_ErrorsAreErrorOutcomes ==
  prog \in PageProgs =>
    /\ Len(errors) = Len(ErrorOutcomes(results))
    /\ \A k \in 1 .. Len(errors) :
         /\ errors[k].job = ErrorOutcomes(results)[k].job
         /\ errors[k].error = ErrorOutcomes(results)[k].error

\* C16 witness: results holding an outcome of error status next to one of
\* another status, and this.errors holding one entry.
C16_Witness ==
  /\ prog \in {"scraper", "directions", "renderer"}
  /\ Len(errors) = 1
  /\ Len(results) >= 2
  /\ \E o \in Entries(results) : o.status = "error"
  /\ \E o \in Entries(results) : o.status # "error"

\* C17 (as claimed): the summary generateReport writes has successful equal
\* to the number of outcomes of screenshot_status success, failed equal to
\* the number of screenshot_status error, and successful + failed =
\* totalProcessed = the number of outcomes.
C17_ReportCountsMatch ==
  (prog \in {"directions", "questions"} /\ persisted.written) =>
    /\ persisted.summary.successful = Len(SelectSeq(persisted.content, StatusIsSuccess))
    /\ persisted.summary.failed = Len(SelectSeq(persisted.content, StatusIsError))
    /\ persisted.summary.totalProcessed = Len(persisted.content)
    /\ persisted.summary.successful + persisted.summary.failed
         = persisted.summary.totalProcessed

\* Times the try block of the page job of input position j has been entered
\* in this call of the driver: the driver calls the job function once per
\* input, and the job function has no loop and no recursive call.
TriesOf(j) == IF job[j] \in {"idle", "newPage"} THEN 0 ELSE 1

\* C18 (as claimed): in scrapeUrl and captureDirectionsScreenshot a job whose
\* step timed out is tried again up to maxRetries times, so an error outcome
\* of a job is recorded only after maxRetries + 1 tries.
C18_TimeoutRetried ==
  prog \in {"scraper", "directions"} =>
    \A j \in 0 .. n - 1 :
      (job[j] \in {"closing", "done"}
         /\ \E o \in Entries(SubSeq(results, carried + 1, Len(results))) :
              o.job = j /\ o.status = "error")
        => TriesOf(j) = maxRetries + 1

C20_PersistenceFailureEscapes ==
  (prog \in {"scraper", "directions", "questions", "search"}
     /\ writeFailed /\ Finished) => pc = "threw"

\* The page job of input position j has been started in this call.
Started(j) == job[j] # "idle"

\* C21: in GBPIframeScraper.scrape jobs are started in input order: for
\* input positions a < b the job of b is never started while the job of a
\* has not been started.
C21_StartedInInputOrder ==
  prog = "scraper" =>
    \A a, b \in 0 .. n - 1 : (a < b /\ Started(b)) => Started(a)

\* C21 witness: the job of the last of four URLs is started, the three before
\* it having been started (and finished) earlier.
C21_Witness ==
  /\ prog = "scraper"
  /\ n = concurrency + 1
  /\ job[concurrency] = "newPage"
  /\ \A a \in 0 .. concurrency - 1 : job[a] = "done"

\* C22 (as claimed): in GBPIframeScraper.scrape the driver waits with URLs
\* still undispatched only while 3 jobs are in flight (no job having
\* failed out of its promise).
C22_BlockedOnlyAtBound ==
  (prog = "scraper" /\ pc = "await"
     /\ (\E j \in 0 .. n - 1 : ~Started(j))
     /\ (\A j \in 0 .. n - 1 : job[j] # "rejected")) =>
    Cardinality(InFlight) >= concurrency

ColumnOf(header, name) ==
  IF \E k \in 1 .. Len(header) : header[k] = name
  THEN CHOOSE k \in 1 .. Len(header) : header[k] = name
  ELSE 0
RECURSIVE NamedColumnUrls(_, _, _)
NamedColumnUrls(header, rows, name) ==
  IF rows = <<>> \/ ColumnOf(header, name) = 0 THEN <<>>
  ELSE LET url == Head(rows)[ColumnOf(header, name)]
           rest == NamedColumnUrls(header, Tail(rows), name)
       IN IF url # EmptyCell THEN <<EnsureProtocol(url)>> \o rest ELSE rest

\* C24 (as claimed): readUrlsFromCsv(csvFilePath, columnName) resolves with
\* the URLs of the column called columnName, wherever that column stands in
\* the file, each starting with http:// or https://.
C24_ReadsNamedColumn ==
  (prog = "reader" /\ pc = "loaded") =>
    /\ urls = NamedColumnUrls(csvFile.header, csvFile.rows, columnName)
    /\ \A k \in 1 .. Len(urls) : urls[k].protocol \in {"http://", "https://"}

\* C25 (as claimed): in the images+reviews and the social-links variant a
\* retry of searchGoogleBusiness runs with the record, index and search term
\* of the first attempt, and with the retry counter of the attempt before
\* it plus one.
C25_RetryKeepsDescriptor ==
  (prog \in {"images", "social"} /\ pc = "search" /\ attempts >= 1) =>
    /\ args.nameAddress = Term(i)
    /\ args.index = Num(i)
    /\ args.searchTerm = Term(i)
    /\ args.record = Rec(i)
    /\ args.retryCount = FirstCall(prog, i).retryCount + attempts

\* processRecord got to the end of its try for record k: an outcome of k
\* that is not the catch block's is in this.results.
Processed(k) == \E o \in Entries(results) : o.job = k /\ o.status # "error"

\* C26 (as claimed): in processRecord of the three GoogleBusinessProfileScraper
\* variants the wait of delayBetweenRequests is taken after every record
\* processed without an error except the last record of the input, and not
\* after the last.
C26_DelayBetweenRecords ==
  (prog \in SearchProgs /\ pc = "recordDone" /\ Processed(i)) =>
    (waited <=> i < n - 1)

\* C27 (as claimed): GBPIframeRenderer.processGBPRecord records an outcome
\* of status success with a non-empty screenshot_path for every record whose
\* browser steps all succeed, i.e. every outcome of a record that met no
\* failing browser step is such a success.
C27_RendererSucceeds ==
  prog = "renderer" =>
    \A o \in Entries(results) :
      o.error # JobError => (o.status = "success" /\ o.artifact # "")

\* C28 (as claimed): once an entry point is over, normally or with an error
\* (scrape, processDirectionsScreenshots, renderAll, main,
\* InitializeGBPBrowserSearchScreenshot), the browser it launched, if any,
\* has been closed.
C28_BrowserClosedAtExit ==
  (\/ prog \in PageProgs /\ pc \in {"returned", "threw"}
   \/ prog \in SearchProgs /\ pc = "exited") =>
    browser \in {"none", "closed"}

\* C29: in GBPIframeScraper every outcome of status success has a non-empty
\* iframe_src and every outcome of status no_iframe_found or error an empty
\* one; and a call of scrape that got past saveResultsToCsv has started the
\* screenshot rendering if and only if this.results holds an outcome of
\* status success.
C29_IframeSrcAndTrigger ==
  prog = "scraper" =>
    /\ \A o \in Entries(results) :
         /\ o.status = "success" => o.artifact # ""
         /\ o.status \in {"no_iframe_found", "error"} => o.artifact = ""
    /\ (reported = 1 /\ ~writeFailed) =>
         (triggered <=> \E o \in Entries(results) : o.status = "success")

\* C29 witness: scrape returned after starting the rendering, with outcomes
\* of all three statuses in this.results.
C29_Witness ==
  /\ prog = "scraper"
  /\ pc = "returned"
  /\ triggered
  /\ \E o \in Entries(results) : o.status = "success" /\ o.artifact = "src"
  /\ \E o \in Entries(results) : o.status = "no_iframe_found"
  /\ \E o \in Entries(results) : o.status = "error"

\* C30 (as claimed): in processAllRecords of gbp_browser_search_screenshot.js
\* and in processDirectionsScreenshots at most one job is in flight at any
\* time, and after a run over a non-empty input this.results has one entry
\* per input record, the k-th entry belonging to the k-th record.
C30_SequentialInInputOrder ==
  prog \in {"search", "directions"} =>
    /\ Cardinality(InFlight) <= 1
    /\ (n > 0 /\ Finished) =>
         /\ Len(results) = n
         /\ \A k \in 1 .. Len(results) : results[k].job = k - 1

=============================================================================
